---- MODULE Spec2Model ----
(***************************************************************************)
(* A model of monteparser's input_parser (src/src/lib.rs), the chumsky     *)
(* grammar                                                                  *)
(*                                                                          *)
(*   none_of("&\n").repeated()                                              *)
(*       .then(choice((just("\n      "), just("&\n"))))                     *)
(*       .repeated().collect().to(McnpInput::Input)                         *)
(*                                                                          *)
(* run by Parser::parse on one in-memory text, as main() does               *)
(* (src/src/main.rs).  Text is a sequence of one-character strings; a       *)
(* position is the 1-based index of the next character to read.             *)
(***************************************************************************)
EXTENDS Integers, Sequences, FiniteSets, TLC

VARIABLES input, pos, iterStart, collected, pc, result

vars == <<input, pos, iterStart, collected, pc, result>>

(***************************************************************************)
(* Bounds of the model.                                                     *)
(***************************************************************************)
MaxPieces == 4

(***************************************************************************)
(* The literals of the grammar.                                             *)
(***************************************************************************)
NL == "\n"
SP == " "
AMP == "&"

\* none_of("&\n"): the characters a segment may not contain
NoneOfSet == {AMP, NL}

\* a plausible slip: the indentation marker written with five spaces
IndentMarkerFive == <<NL, SP, SP, SP, SP, SP>>

\* just("\n      "): a line break followed by six spaces
IndentMarker == <<NL, SP, SP, SP, SP, SP, SP>>

\* just("&\n"): an ampersand followed by the line break
AmpMarker == <<AMP, NL>>

(***************************************************************************)
(* The input main() parses, and the texts the model explores.               *)
(***************************************************************************)
MainInput ==
    <<"1", SP, "0", SP, "2", SP, AMP, NL,
      "-", "5", SP, "6", SP, NL,
      SP, SP, SP, SP, SP, "i", "m", "p", ":", "n", "=", "1", SP, NL>>

DanglingInput ==
    <<SP, SP, SP, SP, SP, "i", "m", "p", ":", "n", "=", "1", NL>>

Pieces ==
    { <<"x">>, <<"c">>, <<SP>>, <<AMP>>, <<NL>>,
      <<AMP, NL>>,
      <<NL, SP, SP, SP, SP>>,
      <<NL, SP, SP, SP, SP, SP>>,
      <<NL, SP, SP, SP, SP, SP, SP>> }

RECURSIVE Texts(_)
Texts(n) ==
    IF n = 0 THEN { <<>> }
    ELSE LET T == Texts(n - 1)
         IN  T \cup { t \o p : t \in T, p \in Pieces }

Inputs == Texts(MaxPieces) \cup {MainInput, DanglingInput}

(***************************************************************************)
(* Matching a literal at a position of a text.                              *)
(***************************************************************************)
MatchAt(s, m, p) ==
    /\ p + Len(m) - 1 <= Len(s)
    /\ SubSeq(s, p, p + Len(m) - 1) = m

(***************************************************************************)
(* The parse as a state machine.                                            *)
(*   pc = "run"    inside none_of("&\n").repeated()                         *)
(*   pc = "choice" at choice((just(..), just(..)))                          *)
(*   pc = "end"    the outer repeated() is over; parse() expects the end    *)
(*   pc = "done"   parse() has returned                                     *)
(***************************************************************************)
Init ==
    /\ input \in Inputs
    /\ pos = 1
    /\ iterStart = 1
    /\ collected = <<>>
    /\ pc = "run"
    /\ result = "none"

\* none_of("&\n") accepts one character
NoneOfStep ==
    /\ pc = "run"
    /\ pos <= Len(input)
    /\ input[pos] \notin NoneOfSet
    /\ pos' = pos + 1
    /\ UNCHANGED <<input, iterStart, collected, pc, result>>

\* none_of fails (end of input, '&' or a line break): the inner repeated() ends
NoneOfEnd ==
    /\ pc = "run"
    /\ IF pos > Len(input) THEN TRUE ELSE input[pos] \in NoneOfSet
    /\ pc' = "choice"
    /\ UNCHANGED <<input, pos, iterStart, collected, result>>

\* one item of the outer repeated().collect(): the segment read and its marker
Item(marker) == [seg |-> SubSeq(input, iterStart, pos - 1), marker |-> marker]

\* first alternative of choice: just("\n      ")
JustNewlineSpaces ==
    /\ pc = "choice"
    /\ MatchAt(input, IndentMarker, pos)
    /\ pos' = pos + Len(IndentMarker)
    /\ iterStart' = pos + Len(IndentMarker)
    /\ collected' = Append(collected, Item(IndentMarker))
    /\ pc' = "run"
    /\ UNCHANGED <<input, result>>

\* second alternative of choice: just("&\n")
JustAmpNewline ==
    /\ pc = "choice"
    /\ ~MatchAt(input, IndentMarker, pos)
    /\ MatchAt(input, AmpMarker, pos)
    /\ pos' = pos + Len(AmpMarker)
    /\ iterStart' = pos + Len(AmpMarker)
    /\ collected' = Append(collected, Item(AmpMarker))
    /\ pc' = "run"
    /\ UNCHANGED <<input, result>>

\* both alternatives fail: the item fails, repeated() rewinds to the start of
\* the item and ends with the items collected so far
ChoiceFail ==
    /\ pc = "choice"
    /\ ~MatchAt(input, IndentMarker, pos)
    /\ ~MatchAt(input, AmpMarker, pos)
    /\ pos' = iterStart
    /\ pc' = "end"
    /\ UNCHANGED <<input, iterStart, collected, result>>

\* parser.parse(input): the output is produced only if the whole input was
\* consumed; otherwise the result carries an error and no output
ParseEnd ==
    /\ pc = "end"
    /\ result' = IF pos > Len(input) THEN "ok" ELSE "err"
    /\ pc' = "done"
    /\ UNCHANGED <<input, pos, iterStart, collected>>

Next ==
    \/ NoneOfStep
    \/ NoneOfEnd
    \/ JustNewlineSpaces
    \/ JustAmpNewline
    \/ ChoiceFail
    \/ ParseEnd

Spec == Init /\ [][Next]_vars

TypeOK ==
    /\ pos \in 1..(Len(input) + 1)
    /\ iterStart \in 1..pos
    /\ pc \in {"run", "choice", "end", "done"}
    /\ result \in {"none", "ok", "err"}
    /\ (result # "none") <=> (pc = "done")
(***************************************************************************)
(* The same parse as a function of the text, for feeding a text back to    *)
(* the parser.                                                              *)
(***************************************************************************)
\* none_of("&\n").repeated() from position p: the position where it stops
RECURSIVE RunEnd(_, _)
RunEnd(s, p) ==
    IF p > Len(s) THEN p
    ELSE IF s[p] \in NoneOfSet THEN p
    ELSE RunEnd(s, p + 1)

\* the outer repeated().collect() from position p with the items acc
RECURSIVE ParseItems(_, _, _)
ParseItems(s, p, acc) ==
    LET q == RunEnd(s, p)
        seg == SubSeq(s, p, q - 1)
    IN  IF MatchAt(s, IndentMarker, q)
        THEN ParseItems(s, q + Len(IndentMarker),
                        Append(acc, [seg |-> seg, marker |-> IndentMarker]))
        ELSE IF MatchAt(s, AmpMarker, q)
        THEN ParseItems(s, q + Len(AmpMarker),
                        Append(acc, [seg |-> seg, marker |-> AmpMarker]))
        ELSE [pos |-> p, items |-> acc]

\* parser.parse(s)
Parse(s) ==
    LET r == ParseItems(s, 1, <<>>)
    IN  [ok |-> r.pos > Len(s), pos |-> r.pos, items |-> r.items]

\* the state machine and the function are the same parse
MachineIsParse ==
    pc = "done" =>
        LET r == Parse(input)
        IN  /\ r.ok = (result = "ok")
            /\ r.pos = pos
            /\ r.items = collected

(***************************************************************************)
(* Physical lines of a text, and the line shapes the specification names.   *)
(***************************************************************************)
FirstNL(s) ==
    IF \E i \in 1..Len(s) : s[i] = NL
    THEN CHOOSE i \in 1..Len(s) :
            /\ s[i] = NL
            /\ \A j \in 1..(i - 1) : s[j] # NL
    ELSE Len(s) + 1

RECURSIVE Lines(_)
Lines(s) ==
    IF s = <<>> THEN <<>>
    ELSE LET k == FirstNL(s)
         IN  <<SubSeq(s, 1, k - 1)>> \o Lines(SubSeq(s, k + 1, Len(s)))

\* 1-based number of the physical line that holds position p
LineOf(s, p) == 1 + Cardinality({j \in 1..(p - 1) : j <= Len(s) /\ s[j] = NL})

IsBlank(line) == \A i \in 1..Len(line) : line[i] = SP

LeadingSpaces(line) ==
    IF IsBlank(line) THEN Len(line)
    ELSE (CHOOSE i \in 1..Len(line) :
            /\ line[i] # SP
            /\ \A j \in 1..(i - 1) : line[j] = SP) - 1

RECURSIVE TrimRight(_)
TrimRight(line) ==
    IF line = <<>> THEN line
    ELSE IF line[Len(line)] = SP THEN TrimRight(SubSeq(line, 1, Len(line) - 1))
    ELSE line

Trim(line) ==
    LET t == TrimRight(line)
    IN  SubSeq(t, LeadingSpaces(t) + 1, Len(t))

\* column-one 'c' or 'C' followed by a space or by the end of the content
IsComment(line) ==
    LET t == TrimRight(line)
    IN  /\ Len(t) >= 1
        /\ t[1] \in {"c", "C"}
        /\ (Len(t) = 1 \/ t[2] = SP)

EndsWithAmp(line) == Len(line) >= 1 /\ line[Len(line)] = AMP

\* an ampersand followed by trailing whitespace before the line break
EndsWithAmpThenSpaces(line) ==
    LET t == TrimRight(line)
    IN  Len(t) < Len(line) /\ EndsWithAmp(t)

\* a line that is no terminator, no comment and no indented continuation
RecordStartShaped(line) ==
    /\ ~IsBlank(line)
    /\ ~IsComment(line)
    /\ LeadingSpaces(line) < 5

IsRecordStart(ls, i) ==
    /\ RecordStartShaped(ls[i])
    /\ (i = 1 \/ ~EndsWithAmp(ls[i - 1]))

(***************************************************************************)
(* What a parse yields.  A successful parse yields one McnpInput::Input,   *)
(* the one record made of every segment of the text; a failed parse yields *)
(* one error and no output.                                                 *)
(***************************************************************************)
RECURSIVE Join(_)
Join(segs) ==
    IF segs = <<>> THEN <<>>
    ELSE IF Len(segs) = 1 THEN segs[1]
    ELSE segs[1] \o <<SP>> \o Join(Tail(segs))

\* the segments of a record, trimmed and joined by single spaces
Content(items) == Join([i \in 1..Len(items) |-> Trim(items[i].seg)])

RecordsOf(s, ok, items) ==
    IF ok
    THEN << [kind |-> "Data", start_line |-> 1, end_line |-> Len(Lines(s)),
             content |-> Content(items)] >>
    ELSE <<>>

Records == RecordsOf(input, result = "ok", collected)

Diagnostics == IF result = "err" THEN << "ParseError" >> ELSE <<>>

Covers(r, i) == r.start_line <= i /\ i <= r.end_line
(***************************************************************************)
(* The claims.                                                              *)
(***************************************************************************)
MainContent ==
    <<"1", SP, "0", SP, "2", SP, "-", "5", SP, "6", SP,
      "i", "m", "p", ":", "n", "=", "1">>

\* C1: parsing the input of main() consumes the whole input and yields
\* exactly one Data record spanning physical lines 1-3 whose content is
\* "1 0 2 -5 6 imp:n=1".
C1_MainInputOneRecord ==
    (pc = "done" /\ input = MainInput) =>
        /\ result = "ok"
        /\ pos = Len(input) + 1
        /\ Records = << [kind |-> "Data", start_line |-> 1, end_line |-> 3,
                         content |-> MainContent] >>

\* the parser stands at the line break that ends line i, a record-start line
\* with no trailing ampersand, and line i + 1 has k leading spaces and content
AtIndentedLine(k) ==
    /\ pc = "choice"
    /\ pos <= Len(input)
    /\ input[pos] = NL
    /\ LET ls == Lines(input)
           i == LineOf(input, pos)
       IN  /\ i + 1 <= Len(ls)
           /\ IsRecordStart(ls, i)
           /\ ~EndsWithAmp(ls[i])
           /\ ~IsBlank(ls[i + 1])
           /\ LeadingSpaces(ls[i + 1]) = k

\* C2: after a record-start line, a line with exactly five leading spaces and
\* content folds into the record (the line break and the five spaces are
\* consumed as a continuation marker and the parse goes on in the same
\* record); a line with exactly four leading spaces does not fold.
C2_FiveSpaceThreshold ==
    [][ /\ AtIndentedLine(5) =>
            /\ pc' = "run"
            /\ pos' = pos + 6
            /\ Len(collected') = Len(collected) + 1
        /\ AtIndentedLine(4) => collected' = collected
      ]_vars

\* C3: a blank line closes the open record: no emitted record's line range
\* holds a blank line after a non-blank line of the same record.
C3_BlankLineCloses ==
    pc = "done" =>
        LET ls == Lines(input)
        IN  \A n \in 1..Len(Records) : \A i \in 1..Len(ls) :
                ~ /\ Covers(Records[n], i)
                  /\ IsBlank(ls[i])
                  /\ \E j \in 1..(i - 1) :
                        Covers(Records[n], j) /\ ~IsBlank(ls[j])

\* C4: a comment line is emitted as its own record of kind Comment and lies
\* in the line range of no Data record, whatever the indentation of the
\* lines around it.
C4_CommentsNeverMerged ==
    (pc = "done" /\ result = "ok") =>
        LET ls == Lines(input)
        IN  \A i \in 1..Len(ls) :
                IsComment(ls[i]) =>
                    /\ \E n \in 1..Len(Records) :
                          /\ Records[n].kind = "Comment"
                          /\ Records[n].start_line = i
                          /\ Records[n].end_line = i
                    /\ \A n \in 1..Len(Records) :
                          Records[n].kind = "Data" => ~Covers(Records[n], i)

\* a text that raises no diagnostic: every line is ended by a line break,
\* every ampersand stands right before a line break and is followed by a
\* line to continue with, and no indented line comes first or follows a
\* blank or a comment line
WellFormed(s) ==
    LET ls == Lines(s)
    IN  /\ s # <<>>
        /\ s[Len(s)] = NL
        /\ \A p \in 1..Len(s) : s[p] = AMP => (p < Len(s) /\ s[p + 1] = NL)
        /\ ~EndsWithAmp(ls[Len(ls)])
        /\ \A i \in 1..Len(ls) :
              (~IsBlank(ls[i]) /\ LeadingSpaces(ls[i]) >= 5) =>
                  (i > 1 /\ ~IsBlank(ls[i - 1]) /\ ~IsComment(ls[i - 1]))
        /\ \A i \in 2..Len(ls) :
              EndsWithAmp(ls[i - 1]) => (~IsBlank(ls[i]) /\ ~IsComment(ls[i]))

\* C5: for every well-formed input, every non-blank, non-comment physical
\* line lies in the line range of exactly one emitted record.
C5_CoverageComplete ==
    (pc = "done" /\ WellFormed(input)) =>
        LET ls == Lines(input)
        IN  \A i \in 1..Len(ls) :
                (~IsBlank(ls[i]) /\ ~IsComment(ls[i])) =>
                    Cardinality({n \in 1..Len(Records) : Covers(Records[n], i)}) = 1

\* C6: there is no fatal error path: on every input the parse runs to the end
\* of the input, and what was parsed is yielded, errors or not.
C6_NoFatalError ==
    pc = "done" =>
        /\ pos = Len(input) + 1
        /\ collected # <<>> => Records # <<>>

\* C7: the input "     imp:n=1\n" yields exactly one DanglingContinuation
\* diagnostic and exactly one Data record holding the line's content.
C7_DanglingContinuation ==
    (pc = "done" /\ input = DanglingInput) =>
        /\ Diagnostics = << "DanglingContinuation" >>
        /\ Len(Records) = 1
        /\ Records[1].kind = "Data"
        /\ Records[1].content = <<"i", "m", "p", ":", "n", "=", "1">>

\* C8: feeding the content of an emitted record back as the whole input
\* yields exactly one record, whose content is the content fed in.
C8_FoldIdempotent ==
    pc = "done" =>
        \A n \in 1..Len(Records) :
            LET c == Records[n].content
                r == Parse(c)
                again == RecordsOf(c, r.ok, r.items)
            IN  /\ Len(again) = 1
                /\ again[1].content = c

\* C9: an ampersand right before the line break folds the line with the next
\* one, the ampersand left out of the content; an ampersand followed by
\* trailing whitespace does not fold, and the line after it opens a new record.
C9_ExplicitContinuation ==
    /\ [][ (pc = "choice" /\ MatchAt(input, <<AMP, NL>>, pos)) =>
              /\ pc' = "run"
              /\ pos' = pos + 2
              /\ collected' = Append(collected,
                     [seg |-> SubSeq(input, iterStart, pos - 1),
                      marker |-> <<AMP, NL>>])
         ]_vars
    /\ [](pc = "done" =>
            LET ls == Lines(input)
            IN  \A i \in 1..(Len(ls) - 1) :
                    (EndsWithAmpThenSpaces(ls[i]) /\ ~IsBlank(ls[i + 1])) =>
                        \E n \in 1..Len(Records) :
                            Records[n].start_line = i + 1)

\* a text that is a concatenation of segments, each a run of characters other
\* than '&' and the line break followed by one marker: '&' and a line break,
\* or a line break and six spaces
RECURSIVE Segmented(_)
Segmented(s) ==
    \/ s = <<>>
    \/ \E k \in 1..Len(s) :
          /\ \A j \in 1..(k - 1) : s[j] \notin {"&", "\n"}
          /\ \/ /\ s[k] = "&"
                /\ k + 1 <= Len(s)
                /\ s[k + 1] = "\n"
                /\ Segmented(SubSeq(s, k + 2, Len(s)))
             \/ /\ s[k] = "\n"
                /\ k + 6 <= Len(s)
                /\ \A j \in 1..6 : s[k + j] = " "
                /\ Segmented(SubSeq(s, k + 7, Len(s)))

EndsWithMarker(s) ==
    \/ Len(s) >= 2 /\ SubSeq(s, Len(s) - 1, Len(s)) = <<"&", "\n">>
    \/ Len(s) >= 7 /\ SubSeq(s, Len(s) - 6, Len(s)) =
                          <<"\n", " ", " ", " ", " ", " ", " ">>

\* what is left of the parse: it decreases with every step
Measure ==
    IF pc = "done" THEN 0
    ELSE IF pc = "end" THEN 1
    ELSE 2 + 2 * (Len(input) + 1 - pos) + (IF pc = "run" THEN 1 ELSE 0)

\* C10: the parse consumes the whole input without error exactly when the
\* input is a concatenation of segments, each a run of characters other than
\* '&' and the line break followed by '&' and a line break or by a line break
\* and six spaces; an accepted non-empty input ends with a marker, each of its
\* '&' is followed by a line break and each of its line breaks is preceded by
\* '&' or followed by six spaces; every repetition consumes a character and
\* every step brings the parse nearer to its end.
C10_AcceptedLanguage ==
    /\ [](pc = "done" =>
            /\ (result = "ok") <=> Segmented(input)
            /\ (result = "ok") <=> (pos = Len(input) + 1)
            /\ (result = "ok" /\ input # <<>>) => EndsWithMarker(input)
            /\ result = "ok" =>
                \A p \in 1..Len(input) :
                    /\ input[p] = "&" => (p < Len(input) /\ input[p + 1] = "\n")
                    /\ input[p] = "\n" =>
                          \/ p > 1 /\ input[p - 1] = "&"
                          \/ /\ p + 6 <= Len(input)
                             /\ \A j \in 1..6 : input[p + j] = " ")
    /\ [][ /\ Len(collected') > Len(collected) => pos' > iterStart
           /\ Measure' < Measure
         ]_vars

\* an accepted input of two segments, one ended by each marker
C10_Witness ==
    /\ pc = "done"
    /\ result = "ok"
    /\ Len(collected) >= 2
    /\ \E a, b \in 1..Len(collected) :
          /\ collected[a].marker = <<"&", "\n">>
          /\ Len(collected[b].marker) = 7
          /\ collected[a].seg # <<>>
====
